---------------------------- MODULE Spec2Model ----------------------------
(***************************************************************************)
(* The move-stream codec (src/src/lib.rs) and the position codec           *)
(* (src/src/position.rs) of chess_compression.                             *)
(*                                                                         *)
(* The state machines of this module:                                      *)
(*   SpecCodes  an audit of the literal CODES table, entry by entry;       *)
(*   SpecTree   build_tree(0, 0) run as an explicit call stack, followed   *)
(*              by read descending the finished trie one bit at a time;    *)
(*   SpecSym    write of a symbol followed by read of its bits;            *)
(*   SpecPos    position::compress followed by position::decompress;       *)
(*   SpecUnpack position::decompress applied to any bytes;                 *)
(*   SpecMoves  compress_from_position followed by                         *)
(*              decompress_from_position, one ply per step;                *)
(*   SpecDecode decompress_from_position applied to any bytes;             *)
(*   SpecScore  move_score applied to one move.                            *)
(* Squares are 0..63 (a1 = 0, h1 = 7, a8 = 56), bytes are 0..255 and bit   *)
(* streams are sequences over {0, 1}.                                      *)
(***************************************************************************)
EXTENDS Integers, Sequences, FiniteSets, TLC

VARIABLES
  auditN, auditHi, auditLo, auditPair,              \* SpecCodes
  stack, ret, root, node, nread, sym,               \* SpecTree
  posSetup, posPacked, posUnpacked,                 \* SpecPos
  mvStart, mvInput, cPos, cPrev, cWriter, cEmitted, cOut,   \* SpecMoves,
  dIn, dPos, dBit, dMoves, dOut,                    \* SpecMoves
  scMove, scPos, scScore                            \* SpecScore

codeVars == <<auditN, auditHi, auditLo, auditPair>>
treeVars == <<stack, ret, root, node, nread, sym>>
posVars == <<posSetup, posPacked, posUnpacked>>
encVars == <<mvStart, mvInput, cPos, cPrev, cWriter, cEmitted, cOut>>
decVars == <<dIn, dPos, dBit, dMoves, dOut>>
scoreVars == <<scMove, scPos, scScore>>
vars == <<codeVars, treeVars, posVars, encVars, decVars, scoreVars>>

(***************************************************************************)
(* lib.rs: the Huffman code book                                           *)
(***************************************************************************)

\* const CODES: [Symbol; 256], as <<code, length>> pairs; CODES[s + 1] is
\* the entry of symbol s.
CODES ==
  <<
    <<0, 2>>, <<4, 3>>, <<13, 4>>, <<10, 4>>,
    <<5, 4>>, <<29, 5>>, <<23, 5>>, <<14, 5>>,
    <<12, 5>>, <<8, 5>>, <<61, 6>>, <<57, 6>>,
    <<60, 6>>, <<51, 6>>, <<50, 6>>, <<48, 6>>,
    <<45, 6>>, <<44, 6>>, <<31, 6>>, <<27, 6>>,
    <<19, 6>>, <<26, 6>>, <<127, 7>>, <<125, 7>>,
    <<126, 7>>, <<124, 7>>, <<112, 7>>, <<99, 7>>,
    <<61, 7>>, <<37, 7>>, <<36, 7>>, <<226, 8>>,
    <<197, 8>>, <<121, 8>>, <<455, 9>>, <<393, 9>>,
    <<241, 9>>, <<240, 9>>, <<908, 10>>, <<784, 10>>,
    <<1818, 11>>, <<1570, 11>>, <<3638, 12>>, <<3142, 12>>,
    <<7278, 13>>, <<6286, 13>>, <<14558, 14>>, <<12574, 14>>,
    <<29118, 15>>, <<25150, 15>>, <<58238, 16>>, <<50302, 16>>,
    <<100607, 17>>, <<232959, 18>>, <<232957, 18>>, <<201212, 18>>,
    <<465916, 19>>, <<402427, 19>>, <<931835, 20>>, <<931826, 20>>,
    <<931824, 20>>, <<1863669, 21>>, <<1863654, 21>>, <<1863650, 21>>,
    <<1609705, 21>>, <<1609704, 21>>, <<3727336, 22>>, <<3727302, 22>>,
    <<3219415, 22>>, <<3219413, 22>>, <<7454675, 23>>, <<7454622, 23>>,
    <<7454606, 23>>, <<7454607, 23>>, <<6438828, 23>>, <<14909243, 24>>,
    <<14909348, 24>>, <<14909247, 24>>, <<14909242, 24>>, <<12877659, 24>>,
    <<12877651, 24>>, <<12877649, 24>>, <<29818483, 25>>, <<29818481, 25>>,
    <<29818482, 25>>, <<25755301, 25>>, <<25755316, 25>>, <<25755297, 25>>,
    <<59636987, 26>>, <<59636985, 26>>, <<59636986, 26>>, <<59636984, 26>>,
    <<51510635, 26>>, <<119274799, 27>>, <<103021268, 27>>, <<103021269, 27>>,
    <<119273922, 27>>, <<119273923, 27>>, <<103021203, 27>>, <<238549587, 28>>,
    <<206042405, 28>>, <<238547843, 28>>, <<238547842, 28>>, <<238547840, 28>>,
    <<477095682, 29>>, <<412084745, 29>>, <<477095683, 29>>, <<412084744, 29>>,
    <<412084739, 29>>, <<824169502, 30>>, <<954198374, 30>>, <<954198359, 30>>,
    <<824169485, 30>>, <<954198370, 30>>, <<824169480, 30>>, <<824169477, 30>>,
    <<824169472, 30>>, <<824169482, 30>>, <<824169613, 30>>, <<824169619, 30>>,
    <<824169618, 30>>, <<824169617, 30>>, <<824169616, 30>>, <<824169611, 30>>,
    <<824169610, 30>>, <<824169609, 30>>, <<824169608, 30>>, <<824169607, 30>>,
    <<824169606, 30>>, <<824169603, 30>>, <<824169602, 30>>, <<824169499, 30>>,
    <<824169498, 30>>, <<824169497, 30>>, <<824169496, 30>>, <<824169493, 30>>,
    <<824169492, 30>>, <<824169605, 30>>, <<824169604, 30>>, <<824169503, 30>>,
    <<824169501, 30>>, <<824169500, 30>>, <<824169601, 30>>, <<824169600, 30>>,
    <<824169487, 30>>, <<824169486, 30>>, <<824169484, 30>>, <<824169495, 30>>,
    <<824169494, 30>>, <<824169481, 30>>, <<824169476, 30>>, <<824169475, 30>>,
    <<824169474, 30>>, <<824169473, 30>>, <<824169483, 30>>, <<824169615, 30>>,
    <<824169614, 30>>, <<824169612, 30>>, <<1908396733, 31>>, <<1908396735, 31>>,
    <<1908396706, 31>>, <<1908396767, 31>>, <<1908396708, 31>>, <<1908396729, 31>>,
    <<1908396762, 31>>, <<1908396754, 31>>, <<1908396752, 31>>, <<1908396730, 31>>,
    <<1908396683, 31>>, <<1908396682, 31>>, <<1908396681, 31>>, <<1908396680, 31>>,
    <<1908396679, 31>>, <<1908396678, 31>>, <<1908396677, 31>>, <<1908396676, 31>>,
    <<1908396759, 31>>, <<1908396758, 31>>, <<1908396757, 31>>, <<1908396756, 31>>,
    <<1908396727, 31>>, <<1908396726, 31>>, <<1908396693, 31>>, <<1908396692, 31>>,
    <<1908396725, 31>>, <<1908396724, 31>>, <<1908396695, 31>>, <<1908396694, 31>>,
    <<1908396721, 31>>, <<1908396720, 31>>, <<1908396691, 31>>, <<1908396690, 31>>,
    <<1908396781, 31>>, <<1908396780, 31>>, <<1908396779, 31>>, <<1908396778, 31>>,
    <<1908396775, 31>>, <<1908396774, 31>>, <<1908396689, 31>>, <<1908396688, 31>>,
    <<1908396771, 31>>, <<1908396770, 31>>, <<1908396769, 31>>, <<1908396768, 31>>,
    <<1908396777, 31>>, <<1908396776, 31>>, <<1908396687, 31>>, <<1908396686, 31>>,
    <<1908396675, 31>>, <<1908396674, 31>>, <<1908396685, 31>>, <<1908396684, 31>>,
    <<1908396751, 31>>, <<1908396750, 31>>, <<1908396673, 31>>, <<1908396672, 31>>,
    <<1908396761, 31>>, <<1908396760, 31>>, <<1908396773, 31>>, <<1908396772, 31>>,
    <<1908396717, 31>>, <<1908396716, 31>>, <<1908396723, 31>>, <<1908396722, 31>>,
    <<1908396713, 31>>, <<1908396712, 31>>, <<1908396783, 31>>, <<1908396782, 31>>,
    <<1908396747, 31>>, <<1908396746, 31>>, <<1908396739, 31>>, <<1908396738, 31>>,
    <<1908396715, 31>>, <<1908396714, 31>>, <<1908396745, 31>>, <<1908396744, 31>>,
    <<1908396743, 31>>, <<1908396742, 31>>, <<1908396737, 31>>, <<1908396736, 31>>,
    <<1908396732, 31>>, <<1908396711, 31>>, <<1908396710, 31>>, <<1908396734, 31>>,
    <<1908396707, 31>>, <<1908396705, 31>>, <<1908396704, 31>>, <<1908396766, 31>>,
    <<1908396709, 31>>, <<1908396765, 31>>, <<1908396764, 31>>, <<1908396728, 31>>,
    <<1908396763, 31>>, <<1908396753, 31>>, <<1908396755, 31>>, <<1908396731, 31>>
  >>

Symbols == 0..255

\* struct Symbol (u32, u8): field .0, the code bits as an integer.
SymCode(s) == CODES[s + 1][1]

SymLen_short(s) == IF s = 255 THEN CODES[s + 1][2] - 1 ELSE CODES[s + 1][2]

\* struct Symbol (u32, u8): field .1, the number of bits of the code.
SymLen(s) == CODES[s + 1][2]

Min(S) == CHOOSE x \in S : \A y \in S : x <= y

Max(S) == CHOOSE x \in S : \A y \in S : x >= y

\* The bit string of symbol s, most significant bit first: what
\* writer.write_bits(code.0, code.1) appends to the stream.
CodeBits(s) ==
  [k \in 1..SymLen(s) |-> (SymCode(s) \div (2 ^ (SymLen(s) - k))) % 2]

\* Whether bit string p is a prefix of (or equal to) bit string q.
IsPrefixOf(p, q) == Len(p) <= Len(q) /\ SubSeq(q, 1, Len(p)) = p

(***************************************************************************)
(* lib.rs: enum Node, build_tree                                           *)
(***************************************************************************)

NoNode == [kind |-> "none"]

Leaf(n) == [kind |-> "leaf", sym |-> n]

Interior(z, o) == [kind |-> "interior", zero |-> z, one |-> o]

\* The for loop of build_tree: the first symbol whose entry is exactly
\* (code, bits), or -1 when the loop falls through.
LeafFor(code, bits) ==
  LET M == {i \in Symbols : SymCode(i) = code /\ SymLen(i) = bits}
  IN  IF M = {} THEN -1 ELSE Min(M)

\* The longest code of the table: a u32 holds the code of any node down to
\* this depth without losing a bit.
MaxCodeLen == Max({SymLen(s) : s \in Symbols})

ZeroCode_noShift(code) == code

\* The code of a node's zero child: code << 1.
ZeroCode(code) == code * 2

\* The code of a node's one child: (code << 1) | 1.
OneCode(code) == code * 2 + 1

\* build_tree as a function (the value lazy_static stores in ROOT).
RECURSIVE build_tree(_, _)
build_tree(code, bits) ==
  LET i == LeafFor(code, bits)
  IN  IF i # -1
      THEN Leaf(i)
      ELSE Interior(build_tree(ZeroCode(code), bits + 1),
                    build_tree(OneCode(code), bits + 1))

ROOT == build_tree(0, 0)

Descend_swapped(n, bit) == IF bit = 1 THEN n.zero ELSE n.one

\* One iteration of read's loop on an interior node: follow the bit.
Descend(n, bit) == IF bit = 1 THEN n.one ELSE n.zero

(***************************************************************************)
(* The chess vocabulary both codecs read (shakmaty's Square, Piece, Setup) *)
(***************************************************************************)

Squares == 0..63

NoSquare == -1

Roles == {"Pawn", "Knight", "Bishop", "Rook", "Queen", "King"}

Colors == {"White", "Black"}

Piece(color, role) == [color |-> color, role |-> role]

NoPiece == [color |-> "None", role |-> "None"]

Other(color) == IF color = "White" THEN "Black" ELSE "White"

\* Square::offset(delta): None (NoSquare) when the result leaves the board.
Offset(sq, delta) == IF sq + delta \in Squares THEN sq + delta ELSE NoSquare

\* Bitboard::SOUTH: ranks 1 to 4.
SOUTH == 0..31

\* The squares of a bitboard in the order its iterator yields them:
\* ascending.
RECURSIVE SortedSeq(_)
SortedSeq(S) ==
  IF S = {} THEN <<>> ELSE <<Min(S)>> \o SortedSeq(S \ {Min(S)})

\* board.occupied()
Occupied(board) == {sq \in Squares : board[sq] # NoPiece}

\* board.king_of(color): the square of the king, NoSquare without one.
KingOf(board, color) ==
  LET K == {sq \in Squares : board[sq] = Piece(color, "King")}
  IN  IF K = {} THEN NoSquare ELSE Min(K)

\* Setup::empty()
EmptyBoard == [sq \in Squares |-> NoPiece]

EmptySetup ==
  [board |-> EmptyBoard, turn |-> "White", castling_rights |-> {},
   ep_square |-> NoSquare, halfmoves |-> 0, fullmoves |-> 1]

(***************************************************************************)
(* Bytes: u64::to_be_bytes / from_be_bytes and unsigned LEB128             *)
(***************************************************************************)

RECURSIVE SumOver(_, _)
SumOver(S, f) ==
  IF S = {} THEN 0
  ELSE LET x == CHOOSE y \in S : TRUE IN f[x] + SumOver(S \ {x}, f)

\* Byte k (0 first) of occupied.0.to_be_bytes(): bits 8*(7-k) .. 8*(7-k)+7
\* of the u64, bit i of which is square i.
BeByte(occ, k) ==
  SumOver({j \in 0..7 : 8 * (7 - k) + j \in occ}, [j \in 0..7 |-> 2 ^ j])

to_be_bytes(occ) == [k \in 1..8 |-> BeByte(occ, k - 1)]

\* Bitboard(u64::from_be_bytes(b)) as the set of its squares.
from_be_bytes(b) ==
  {sq \in Squares : (b[8 - (sq \div 8)] \div (2 ^ (sq % 8))) % 2 = 1}

\* leb128::write::unsigned: seven bits a byte, low bits first, bit 7 set on
\* every byte but the last.
RECURSIVE Leb128Write(_)
Leb128Write(val) ==
  LET byte == val % 128
      rest == val \div 128
  IN  IF rest # 0 THEN <<byte + 128>> \o Leb128Write(rest) ELSE <<byte>>

\* leb128::read::unsigned from position pos of bytes: the value and the
\* position after it, or an error when the bytes end inside the number or
\* the number does not fit 64 bits.
RECURSIVE Leb128ReadAt(_, _, _, _)
Leb128ReadAt(bytes, pos, shift, acc) ==
  IF pos > Len(bytes)
  THEN [ok |-> FALSE, value |-> 0, next |-> pos]
  ELSE IF shift = 63 /\ bytes[pos] \notin {0, 1}
  THEN [ok |-> FALSE, value |-> 0, next |-> pos]
  ELSE LET low == bytes[pos] % 128
           val == acc + low * (2 ^ shift)
       IN  IF bytes[pos] < 128
           THEN [ok |-> TRUE, value |-> val, next |-> pos + 1]
           ELSE Leb128ReadAt(bytes, pos + 1, shift + 7, val)

Leb128Read(bytes, pos) == Leb128ReadAt(bytes, pos, 0, 0)

(***************************************************************************)
(* position.rs: compress                                                   *)
(***************************************************************************)

Ok(bytes) == [ok |-> TRUE, bytes |-> bytes, err |-> "none"]

Err(e) == [ok |-> FALSE, bytes |-> <<>>, err |-> e]

\* fn piece_value
piece_value(piece, square, black_turn, unmoved_rooks, pawn_pushed_to) ==
  CASE piece.role = "Pawn" /\ square \in pawn_pushed_to -> 12
    [] piece = Piece("White", "Pawn") -> 0
    [] piece = Piece("Black", "Pawn") -> 1
    [] piece = Piece("White", "Knight") -> 2
    [] piece = Piece("Black", "Knight") -> 3
    [] piece = Piece("White", "Bishop") -> 4
    [] piece = Piece("Black", "Bishop") -> 5
    [] piece = Piece("White", "Rook") ->
         IF square \in unmoved_rooks THEN 13 ELSE 6
    [] piece = Piece("Black", "Rook") ->
         IF square \in unmoved_rooks THEN 14 ELSE 7
    [] piece = Piece("White", "Queen") -> 8
    [] piece = Piece("Black", "Queen") -> 9
    [] piece = Piece("White", "King") -> 10
    [] piece = Piece("Black", "King") -> IF black_turn THEN 15 ELSE 11

PushOffset_swapped(turn) == IF turn = "Black" THEN -8 ELSE 8

\* The offset compress applies to the en-passant square: if it is Black to
\* play, White just pushed, so the pawn stands one rank up.
PushOffset(turn) == IF turn = "Black" THEN 8 ELSE -8

\* The 4-bit codes of the occupied squares, in the board iterator's order.
Nibbles(position, pawn_pushed_to) ==
  LET sqs == SortedSeq(Occupied(position.board))
  IN  [k \in 1..Len(sqs) |->
         piece_value(position.board[sqs[k]], sqs[k], position.turn = "Black",
                     position.castling_rights, pawn_pushed_to)]

PackNibbles_highFirst(nib) ==
  [p \in 1..((Len(nib) + 1) \div 2) |->
     LET lower_half == nib[2 * p - 1]
         upper_half == IF 2 * p <= Len(nib) THEN nib[2 * p] ELSE 0
     IN  ((lower_half * 16) % 256) + upper_half]

\* The while-let loop: one byte per pair of codes, (upper_half << 4) |
\* lower_half, upper_half 0 when the last code has no partner.
PackNibbles(nib) ==
  [p \in 1..((Len(nib) + 1) \div 2) |->
     LET lower_half == nib[2 * p - 1]
         upper_half == IF 2 * p <= Len(nib) THEN nib[2 * p] ELSE 0
     IN  ((upper_half * 16) % 256) + lower_half]

Counters_plyAtLeastOne(position) ==
  LET ply == (position.fullmoves - 1) * 2
               + (IF position.turn = "Black" THEN 1 ELSE 0)
      halfmoves == position.halfmoves
      broken_turn ==
        position.turn = "Black" /\ \A sq \in 0..63 :
           position.board[sq] # [color |-> "Black", role |-> "King"]
  IN  (IF halfmoves > 0 \/ ply >= 1 \/ broken_turn
       THEN Leb128Write(halfmoves) ELSE <<>>)
      \o (IF ply >= 1 \/ broken_turn THEN Leb128Write(ply) ELSE <<>>)

Ply(position) ==
  (position.fullmoves - 1) * 2 + (IF position.turn = "Black" THEN 1 ELSE 0)

BrokenTurn(position) ==
  position.turn = "Black" /\ KingOf(position.board, "Black") = NoSquare

\* The two optional counters at the end of compress.
Counters(position) ==
  LET ply == Ply(position)
      halfmoves == position.halfmoves
      broken_turn == BrokenTurn(position)
  IN  (IF halfmoves > 0 \/ ply > 1 \/ broken_turn
       THEN Leb128Write(halfmoves) ELSE <<>>)
      \o (IF ply > 1 \/ broken_turn THEN Leb128Write(ply) ELSE <<>>)

\* pub fn compress(position: &Setup) -> Result<Vec<u8>, Error>
compress(position) ==
  LET pushed == IF position.ep_square = NoSquare THEN NoSquare
                ELSE Offset(position.ep_square, PushOffset(position.turn))
  IN  IF position.ep_square # NoSquare /\ pushed = NoSquare
      THEN Err("SquareOffsetError")
      ELSE LET pawn_pushed_to == IF pushed = NoSquare THEN {} ELSE {pushed}
           IN  Ok(to_be_bytes(Occupied(position.board))
                  \o PackNibbles(Nibbles(position, pawn_pushed_to))
                  \o Counters(position))

(***************************************************************************)
(* position.rs: decompress                                                 *)
(***************************************************************************)

OkSetup(setup) == [ok |-> TRUE, setup |-> setup, err |-> "none"]

ErrSetup(e) == [ok |-> FALSE, setup |-> EmptySetup, err |-> e]

\* fn piece_from_value
piece_from_value(value, square) ==
  CASE value = 0 -> Piece("White", "Pawn")
    [] value = 1 -> Piece("Black", "Pawn")
    [] value = 2 -> Piece("White", "Knight")
    [] value = 3 -> Piece("Black", "Knight")
    [] value = 4 -> Piece("White", "Bishop")
    [] value = 5 -> Piece("Black", "Bishop")
    [] value = 6 \/ value = 13 -> Piece("White", "Rook")
    [] value = 7 \/ value = 14 -> Piece("Black", "Rook")
    [] value = 8 -> Piece("White", "Queen")
    [] value = 9 -> Piece("Black", "Queen")
    [] value = 10 -> Piece("White", "King")
    [] value = 11 \/ value = 15 -> Piece("Black", "King")
    [] value = 12 ->
         Piece(IF square \in SOUTH THEN "White" ELSE "Black", "Pawn")

\* The for loop of decompress over the occupied squares sqs[k..]: i is the
\* index of the next byte (0-based, as in the source), byte the last byte
\* read, read_more whether the next code starts a new byte.
RECURSIVE ReadSquares(_, _, _, _, _, _, _)
ReadSquares(bytes, sqs, k, i, byte, read_more, setup) ==
  IF k > Len(sqs)
  THEN [ok |-> TRUE, setup |-> setup, err |-> "none", i |-> i]
  ELSE IF read_more /\ i + 1 > Len(bytes)
  THEN [ok |-> FALSE, setup |-> setup, err |-> "MissingBytes", i |-> i]
  ELSE LET square == sqs[k]
           byte2 == IF read_more THEN bytes[i + 1] ELSE byte
           i2 == IF read_more THEN i + 1 ELSE i
           value == IF read_more THEN byte2 % 16 ELSE byte2 \div 16
           placed == [setup EXCEPT
                        !.board[square] = piece_from_value(value, square)]
           offset == IF square \in SOUTH THEN -8 ELSE 8
       IN  IF value = 12 /\ Offset(square, offset) = NoSquare
           THEN [ok |-> FALSE, setup |-> placed, err |-> "SquareOffsetError",
                 i |-> i2]
           ELSE ReadSquares(bytes, sqs, k + 1, i2, byte2, ~read_more,
                  CASE value = 12 ->
                         [placed EXCEPT !.ep_square = Offset(square, offset)]
                    [] value = 13 \/ value = 14 ->
                         [placed EXCEPT !.castling_rights = @ \cup {square}]
                    [] value = 15 -> [placed EXCEPT !.turn = "Black"]
                    [] OTHER -> placed)

\* The counters after the codes: the halfmove clock when bytes remain, then
\* the ply count when bytes still remain.  ply_count - black_offset is a u32
\* subtraction: with ply_count = 0 and Black to move it overflows (a panic
\* in a build with overflow checks, a wrapped value without), reported here
\* as the outcome "SubtractOverflow" with the setup as it then stands.
ReadCounters(bytes, i, setup) ==
  IF i >= Len(bytes) THEN OkSetup(setup)
  ELSE LET h == Leb128Read(bytes, i + 1)
       IN  IF ~h.ok THEN ErrSetup("Leb128")
           ELSE LET s1 == [setup EXCEPT !.halfmoves = h.value]
                IN  IF h.next > Len(bytes) THEN OkSetup(s1)
                    ELSE LET p == Leb128Read(bytes, h.next)
                         IN  IF ~p.ok THEN ErrSetup("Leb128")
                             ELSE LET ply_count == p.value
                                      s2 == IF ply_count % 2 = 1
                                            THEN [s1 EXCEPT !.turn = "Black"]
                                            ELSE s1
                                      black_offset ==
                                        IF s2.turn = "Black" THEN 1 ELSE 0
                                  IN  IF ply_count < black_offset
                                      THEN [ok |-> FALSE, setup |-> s2,
                                            err |-> "SubtractOverflow"]
                                      ELSE OkSetup([s2 EXCEPT !.fullmoves =
                                             (ply_count - black_offset) \div 2 + 1])

\* pub fn decompress(mut bytes: &[u8]) -> Result<Setup, Error>
decompress(bytes) ==
  IF Len(bytes) < 8 THEN ErrSetup("MissingBytes")
  ELSE LET occupied == from_be_bytes(SubSeq(bytes, 1, 8))
           r == ReadSquares(bytes, SortedSeq(occupied), 1, 8, 0, TRUE,
                            EmptySetup)
       IN  IF ~r.ok THEN ErrSetup(r.err)
           ELSE ReadCounters(bytes, r.i, r.setup)

\* fullmoves after the subtraction wrapped: (2^32 - 1) / 2 + 1 = 2^31, held
\* in the model's 32-bit integers as the negative number of the same bits.
WrappedFullmoves == -2147483647 - 1

\* What a call of decompress ends in, given its result: the subtraction
\* that overflows panics in a build with overflow checks and wraps in a
\* build without them, where decompress goes on to return the setup.
BuildOutcomes(result) ==
  IF ~result.ok /\ result.err = "SubtractOverflow"
  THEN {ErrSetup("Panic"),
        OkSetup([result.setup EXCEPT !.fullmoves = WrappedFullmoves])}
  ELSE {result}

\* No result yet.
Pending == [ok |-> FALSE, bytes |-> <<>>, err |-> "pending"]

PendingSetup == [ok |-> FALSE, setup |-> EmptySetup, err |-> "pending"]

(***************************************************************************)
(* The rules oracle lib.rs calls (shakmaty's Chess, Move and attacks):     *)
(* legal_moves, play, turn, their, pawn_attacks and the move attributes    *)
(***************************************************************************)

FileOf(sq) == sq % 8

RankOf(sq) == sq \div 8

Abs(x) == IF x < 0 THEN -x ELSE x

Sign(x) == IF x < 0 THEN -1 ELSE IF x > 0 THEN 1 ELSE 0

\* A move: Move::Normal {role, from, capture, to, promotion},
\* Move::EnPassant {from, to} (role Pawn, a capture) or Move::Castle {king,
\* rook} (role King, from the king's square, to the rook's square).
\* capture and promotion are a role or "None".
Normal(role, from, to, capture, promotion) ==
  [kind |-> "Normal", role |-> role, from |-> from, to |-> to,
   capture |-> capture, promotion |-> promotion]

EnPassant(from, to) ==
  [kind |-> "EnPassant", role |-> "Pawn", from |-> from, to |-> to,
   capture |-> "Pawn", promotion |-> "None"]

Castle(king, rook) ==
  [kind |-> "Castle", role |-> "King", from |-> king, to |-> rook,
   capture |-> "None", promotion |-> "None"]

\* m.is_capture()
IsCapture(m) == m.capture # "None"

pawn_attacks_backward(color, sq) ==
  LET up == IF color = "White" THEN -1 ELSE 1
  IN  {t \in Squares : RankOf(t) = RankOf(sq) + up
                        /\ Abs(FileOf(t) - FileOf(sq)) = 1}

\* shakmaty::attacks::pawn_attacks(color, sq): the squares a pawn of that
\* colour standing on sq attacks.
pawn_attacks(color, sq) ==
  LET up == IF color = "White" THEN 1 ELSE -1
  IN  {t \in Squares : RankOf(t) = RankOf(sq) + up
                        /\ Abs(FileOf(t) - FileOf(sq)) = 1}

\* position.their(Role::Pawn): the pawns of the side not to move.
TheirPawns(position) ==
  {sq \in Squares : position.board[sq] = Piece(Other(position.turn), "Pawn")}

\* The squares strictly between two squares of one rank, file or diagonal.
Between(a, b) ==
  LET df == Sign(FileOf(b) - FileOf(a))
      dr == Sign(RankOf(b) - RankOf(a))
      n == Max({Abs(FileOf(b) - FileOf(a)), Abs(RankOf(b) - RankOf(a))})
  IN  {a + k * (df + 8 * dr) : k \in 1..(n - 1)}

OnRookLine(a, b) ==
  a # b /\ (FileOf(a) = FileOf(b) \/ RankOf(a) = RankOf(b))

OnBishopLine(a, b) ==
  a # b /\ Abs(FileOf(a) - FileOf(b)) = Abs(RankOf(a) - RankOf(b))

\* Whether the piece on square s attacks square t on this board.
Attacks(board, s, t) ==
  LET p == board[s]
      df == Abs(FileOf(s) - FileOf(t))
      dr == Abs(RankOf(s) - RankOf(t))
      clear == \A x \in Between(s, t) : board[x] = NoPiece
  IN  CASE p.role = "Pawn" -> t \in pawn_attacks(p.color, s)
        [] p.role = "Knight" -> (df = 1 /\ dr = 2) \/ (df = 2 /\ dr = 1)
        [] p.role = "King" -> s # t /\ df <= 1 /\ dr <= 1
        [] p.role = "Rook" -> OnRookLine(s, t) /\ clear
        [] p.role = "Bishop" -> OnBishopLine(s, t) /\ clear
        [] p.role = "Queen" ->
             (OnRookLine(s, t) \/ OnBishopLine(s, t)) /\ clear
        [] OTHER -> FALSE

IsAttacked(board, t, by) ==
  \E s \in Squares : board[s].color = by /\ Attacks(board, s, t)

PromotionRoles == {"Queen", "Rook", "Bishop", "Knight"}

LastRank(color) == IF color = "White" THEN 7 ELSE 0

PawnStartRank(color) == IF color = "White" THEN 1 ELSE 6

Forward(color) == IF color = "White" THEN 8 ELSE -8

\* The moves of the pawn on s, before the king's safety is looked at.
PawnMoves(position, s) ==
  LET us == position.turn
      board == position.board
      one == s + Forward(us)
      two == s + 2 * Forward(us)
      Promo(t, cap) ==
        IF RankOf(t) = LastRank(us)
        THEN {Normal("Pawn", s, t, cap, r) : r \in PromotionRoles}
        ELSE {Normal("Pawn", s, t, cap, "None")}
  IN  (IF one \in Squares /\ board[one] = NoPiece
       THEN Promo(one, "None") ELSE {})
      \cup (IF /\ RankOf(s) = PawnStartRank(us)
               /\ board[one] = NoPiece
               /\ board[two] = NoPiece
            THEN {Normal("Pawn", s, two, "None", "None")} ELSE {})
      \cup UNION {Promo(t, board[t].role) :
                    t \in {x \in pawn_attacks(us, s) :
                             board[x].color = Other(us)}}
      \cup {EnPassant(s, t) :
              t \in {x \in pawn_attacks(us, s) : x = position.ep_square}}

\* The moves of the knight, bishop, rook, queen or king on s.
PieceMoves(position, s) ==
  LET board == position.board
  IN  {Normal(board[s].role, s, t, board[t].role, "None") :
         t \in {x \in Squares : /\ board[x].color # position.turn
                                /\ Attacks(board, s, x)}}

\* Where king and rook stand after castling with the rook on square rook.
CastleKingTo(king, rook) ==
  IF rook > king THEN 8 * RankOf(king) + 6 ELSE 8 * RankOf(king) + 2

CastleRookTo(king, rook) ==
  IF rook > king THEN 8 * RankOf(king) + 5 ELSE 8 * RankOf(king) + 3

\* Castling with each rook that still has its right: king and rook on the
\* back rank, nothing between them, and the king neither in check nor
\* passing over or landing on an attacked square.
CastleMoves(position) ==
  LET us == position.turn
      board == position.board
      king == KingOf(board, us)
      back == IF us = "White" THEN 0 ELSE 7
  IN  IF king = NoSquare \/ RankOf(king) # back THEN {}
      ELSE {Castle(king, rook) :
              rook \in {r \in position.castling_rights :
                 /\ board[r] = Piece(us, "Rook")
                 /\ RankOf(r) = back
                 /\ \A x \in Between(king, r) : board[x] = NoPiece
                 /\ \A x \in ({king, CastleKingTo(king, r)}
                               \cup Between(king, CastleKingTo(king, r))) :
                      ~IsAttacked(board, x, Other(us))
                 /\ \A x \in {CastleKingTo(king, r), CastleRookTo(king, r)} :
                      board[x] = NoPiece \/ x = king \/ x = r}}

\* The board after move m.
BoardAfter(position, m) ==
  LET board == position.board
      us == position.turn
  IN  CASE m.kind = "Castle" ->
             [sq \in Squares |->
                IF sq = CastleKingTo(m.from, m.to) THEN Piece(us, "King")
                ELSE IF sq = CastleRookTo(m.from, m.to) THEN Piece(us, "Rook")
                ELSE IF sq = m.from \/ sq = m.to THEN NoPiece
                ELSE board[sq]]
        [] m.kind = "EnPassant" ->
             [board EXCEPT ![m.from] = NoPiece,
                           ![m.to] = Piece(us, "Pawn"),
                           ![m.to - Forward(us)] = NoPiece]
        [] OTHER ->
             [board EXCEPT ![m.from] = NoPiece,
                           ![m.to] = Piece(us, IF m.promotion # "None"
                                               THEN m.promotion ELSE m.role)]

\* A move is legal when it does not leave the mover's king attacked.
KingSafeAfter(position, m) ==
  LET after == BoardAfter(position, m)
      king == KingOf(after, position.turn)
  IN  king = NoSquare \/ ~IsAttacked(after, king, Other(position.turn))

LegalMoveSet(position) ==
  LET mine == {s \in Squares : position.board[s].color = position.turn}
      pseudo ==
        UNION {IF position.board[s].role = "Pawn"
               THEN PawnMoves(position, s)
               ELSE PieceMoves(position, s) : s \in mine}
  IN  {m \in pseudo : KingSafeAfter(position, m)} \cup CastleMoves(position)

\* The place of a move in the list legal_moves returns: by from square,
\* then to square, then promotion.
GenKey(m) ==
  (m.from * 64 + m.to) * 8
  + (CASE m.promotion = "Queen" -> 1 [] m.promotion = "Rook" -> 2
       [] m.promotion = "Bishop" -> 3 [] m.promotion = "Knight" -> 4
       [] OTHER -> 0)

RECURSIVE SeqByKey(_)
SeqByKey(S) ==
  IF S = {} THEN <<>>
  ELSE LET m == CHOOSE x \in S : \A y \in S : GenKey(x) <= GenKey(y)
       IN  <<m>> \o SeqByKey(S \ {m})

\* position.legal_moves()
legal_moves(position) == SeqByKey(LegalMoveSet(position))

\* position.play(m) of a legal move: the position after it.
play(position, m) ==
  LET us == position.turn
      back == IF us = "White" THEN 0 ELSE 7
      lost == (IF m.role = "King"
               THEN {r \in position.castling_rights : RankOf(r) = back}
               ELSE {}) \cup {m.from, m.to}
  IN  [board |-> BoardAfter(position, m),
       turn |-> Other(us),
       castling_rights |-> position.castling_rights \ lost,
       ep_square |-> IF m.role = "Pawn" /\ Abs(m.to - m.from) = 16
                     THEN m.from + Forward(us) ELSE NoSquare,
       halfmoves |-> IF m.role = "Pawn" \/ IsCapture(m)
                     THEN 0 ELSE position.halfmoves + 1,
       fullmoves |-> position.fullmoves + (IF us = "Black" THEN 1 ELSE 0)]

(***************************************************************************)
(* lib.rs: the move ordering                                               *)
(***************************************************************************)

\* const PSQT: [[i32; 64]; 6], tables Pawn, Knight, Bishop, Rook, Queen,
\* King; PSQT[r][i + 1] is entry i of table r.
PSQT ==
  <<
    <<
       0, 0, 0, 0, 0, 0, 0, 0,
       50, 50, 50, 50, 50, 50, 50, 50,
       10, 10, 20, 30, 30, 20, 10, 10,
       5, 5, 10, 25, 25, 10, 5, 5,
       0, 0, 0, 20, 21, 0, 0, 0,
       5, -5, -10, 0, 0, -10, -5, 5,
       5, 10, 10, -31, -31, 10, 10, 5,
       0, 0, 0, 0, 0, 0, 0, 0
    >>,
    <<
       -50, -40, -30, -30, -30, -30, -40, -50,
       -40, -20, 0, 0, 0, 0, -20, -40,
       -30, 0, 10, 15, 15, 10, 0, -30,
       -30, 5, 15, 20, 20, 15, 5, -30,
       -30, 0, 15, 20, 20, 15, 0, -30,
       -30, 5, 10, 15, 15, 11, 5, -30,
       -40, -20, 0, 5, 5, 0, -20, -40,
       -50, -40, -30, -30, -30, -30, -40, -50
    >>,
    <<
       -20, -10, -10, -10, -10, -10, -10, -20,
       -10, 0, 0, 0, 0, 0, 0, -10,
       -10, 0, 5, 10, 10, 5, 0, -10,
       -10, 5, 5, 10, 10, 5, 5, -10,
       -10, 0, 10, 10, 10, 10, 0, -10,
       -10, 10, 10, 10, 10, 10, 10, -10,
       -10, 5, 0, 0, 0, 0, 5, -10,
       -20, -10, -10, -10, -10, -10, -10, -20
    >>,
    <<
       0, 0, 0, 0, 0, 0, 0, 0,
       5, 10, 10, 10, 10, 10, 10, 5,
       -5, 0, 0, 0, 0, 0, 0, -5,
       -5, 0, 0, 0, 0, 0, 0, -5,
       -5, 0, 0, 0, 0, 0, 0, -5,
       -5, 0, 0, 0, 0, 0, 0, -5,
       -5, 0, 0, 0, 0, 0, 0, -5,
       0, 0, 0, 5, 5, 0, 0, 0
    >>,
    <<
       -20, -10, -10, -5, -5, -10, -10, -20,
       -10, 0, 0, 0, 0, 0, 0, -10,
       -10, 0, 5, 5, 5, 5, 0, -10,
       -5, 0, 5, 5, 5, 5, 0, -5,
       0, 0, 5, 5, 5, 5, 0, -5,
       -10, 5, 5, 5, 5, 5, 0, -10,
       -10, 0, 5, 0, 0, 0, 0, -10,
       -20, -10, -10, -5, -5, -10, -10, -20
    >>,
    <<
       -30, -40, -40, -50, -50, -40, -40, -30,
       -30, -40, -40, -50, -50, -40, -40, -30,
       -30, -40, -40, -50, -50, -40, -40, -30,
       -30, -40, -40, -50, -50, -40, -40, -30,
       -20, -30, -30, -40, -40, -30, -30, -20,
       -10, -20, -20, -20, -20, -20, -20, -10,
       20, 20, 0, 0, 0, 0, 20, 20,
       0, 30, 10, 0, 0, 10, 30, 0
    >>
  >>

\* i32::from(role) / usize::from(role): Pawn = 1 .. King = 6.
RoleInt(role) ==
  CASE role = "Pawn" -> 1 [] role = "Knight" -> 2 [] role = "Bishop" -> 3
    [] role = "Rook" -> 4 [] role = "Queen" -> 5 [] role = "King" -> 6

\* Square::flip_vertical: sq ^ 56.
FlipVertical(sq) == 8 * (7 - RankOf(sq)) + FileOf(sq)

move_value_tenfold(position, m) ==
  LET role_idx == RoleInt(m.role) - 1
      flip == position.turn = "White"
      to_idx == IF flip THEN FlipVertical(m.to) ELSE m.to
      from_idx == IF flip THEN FlipVertical(m.from) ELSE m.from
  IN  10 * (PSQT[role_idx + 1][to_idx + 1] - PSQT[role_idx + 1][from_idx + 1])

\* fn move_value
move_value(position, m) ==
  LET role_idx == RoleInt(m.role) - 1
      flip == position.turn = "White"
      to_idx == IF flip THEN FlipVertical(m.to) ELSE m.to
      from_idx == IF flip THEN FlipVertical(m.from) ELSE m.from
  IN  PSQT[role_idx + 1][to_idx + 1] - PSQT[role_idx + 1][from_idx + 1]

move_score_noPromotion(m, position) ==
  LET defending_pawns ==
        pawn_attacks(position.turn, m.to) \cap TheirPawns(position)
      defending_pawn_score ==
        IF defending_pawns = {} THEN 6 ELSE 6 - RoleInt(m.role)
      score ==
        (IF IsCapture(m) THEN 2 ^ 25 ELSE 0)
        + defending_pawn_score * (2 ^ 22)
        + (512 + move_value(position, m)) * (2 ^ 12)
        + m.to * (2 ^ 6)
        + m.from
  IN  -score

\* fn move_score
move_score(m, position) ==
  LET defending_pawns ==
        pawn_attacks(position.turn, m.to) \cap TheirPawns(position)
      defending_pawn_score ==
        IF defending_pawns = {} THEN 6 ELSE 6 - RoleInt(m.role)
      score ==
        (IF m.promotion # "None"
         THEN (RoleInt(m.promotion) - 1) * (2 ^ 26) ELSE 0)
        + (IF IsCapture(m) THEN 2 ^ 25 ELSE 0)
        + defending_pawn_score * (2 ^ 22)
        + (512 + move_value(position, m)) * (2 ^ 12)
        + m.to * (2 ^ 6)
        + m.from
  IN  -score

\* sorted_by_key is a stable sort of <<key, move>> pairs: a move is put
\* behind every move whose key is not larger.
RECURSIVE InsertByKey(_, _)
InsertByKey(sorted, km) ==
  IF sorted = <<>> THEN <<km>>
  ELSE IF Head(sorted)[1] <= km[1]
  THEN <<Head(sorted)>> \o InsertByKey(Tail(sorted), km)
  ELSE <<km>> \o sorted

RECURSIVE SortByKey(_, _)
SortByKey(keyed, k) ==
  IF k = 0 THEN <<>>
  ELSE InsertByKey(SortByKey(keyed, k - 1), keyed[k])

\* into_iter().sorted_by_key(|m| move_score(m, position)).collect() of the
\* list the oracle returned.
SortMoves(list, position) ==
  LET keyed == [k \in 1..Len(list) |->
                  <<move_score(list[k], position), list[k]>>]
      sorted == SortByKey(keyed, Len(keyed))
  IN  [k \in 1..Len(sorted) |-> sorted[k][2]]

\* fn sorted_moves
sorted_moves(position) == SortMoves(legal_moves(position), position)

(***************************************************************************)
(* lib.rs: bit I/O (bitbit's BitWriter and BitReader<_, MSB>), write, read *)
(***************************************************************************)

\* BitWriter::new(&mut output): bytes already in the Vec, and the bits of
\* the byte being filled, first written first.
NewWriter == [bytes |-> <<>>, buf |-> <<>>]

\* The byte of eight bits, the first the most significant.
RECURSIVE ByteOf(_)
ByteOf(bits) ==
  IF bits = <<>> THEN 0
  ELSE bits[Len(bits)] + 2 * ByteOf(SubSeq(bits, 1, Len(bits) - 1))

\* BitWriter::write_bit
write_bit(w, bit) ==
  LET buf == Append(w.buf, bit)
  IN  IF Len(buf) = 8
      THEN [bytes |-> Append(w.bytes, ByteOf(buf)), buf |-> <<>>]
      ELSE [bytes |-> w.bytes, buf |-> buf]

\* BitWriter::write_bits(value, nbits): bit nbits - 1 of value first.
RECURSIVE write_bits(_, _, _)
write_bits(w, value, nbits) ==
  IF nbits = 0 THEN w
  ELSE write_bits(write_bit(w, (value \div (2 ^ (nbits - 1))) % 2),
                  value, nbits - 1)

RECURSIVE pad_to_byte_ones(_)
pad_to_byte_ones(w) ==
  IF w.buf = <<>> THEN w ELSE pad_to_byte_ones(write_bit(w, 1))

\* BitWriter::pad_to_byte: zero bits until the byte is full.
RECURSIVE pad_to_byte(_)
pad_to_byte(w) ==
  IF w.buf = <<>> THEN w ELSE pad_to_byte(write_bit(w, 0))

\* fn write
write(value, writer) == write_bits(writer, SymCode(value), SymLen(value))

read_bit_lsbFirst(bytes, pos) ==
  IF pos >= 8 * Len(bytes) THEN -1
  ELSE (bytes[(pos \div 8) + 1] \div (2 ^ (pos % 8))) % 2

\* BitReader::read_bit at bit offset pos of the input, most significant
\* bit of each byte first; -1 when the input is exhausted (an io::Error).
read_bit(bytes, pos) ==
  IF pos >= 8 * Len(bytes) THEN -1
  ELSE (bytes[(pos \div 8) + 1] \div (2 ^ (7 - (pos % 8)))) % 2

\* fn read, from node n on: the symbol and the offset after its code, or
\* the I/O error.
RECURSIVE ReadFrom(_, _, _)
ReadFrom(bytes, pos, n) ==
  IF n.kind = "leaf" THEN [ok |-> TRUE, value |-> n.sym, pos |-> pos]
  ELSE IF read_bit(bytes, pos) = -1
  THEN [ok |-> FALSE, value |-> 0, pos |-> pos]
  ELSE ReadFrom(bytes, pos + 1, Descend(n, read_bit(bytes, pos)))

\* fn read, over the trie ROOT holds
read(bytes, pos, trie) == ReadFrom(bytes, pos, trie)

(***************************************************************************)
(* lib.rs: write_move, read_move                                           *)
(***************************************************************************)

IndexOf_oneBased(list, m) ==
  LET I == {i \in 1..Len(list) : list[i] = m}
  IN  IF I = {} THEN -1 ELSE Min(I)

\* moves.into_iter().position(|r| r == *m): the 0-based index of the first
\* equal move, -1 for None.
IndexOf(list, m) ==
  LET I == {i \in 1..Len(list) : list[i] = m}
  IN  IF I = {} THEN -1 ELSE Min(I) - 1

\* idx as u8
AsU8(idx) == idx % 256

WriteMoveIn_symbolZero(m, moves, writer) ==
  LET idx == IndexOf(moves, m)
  IN  IF idx # -1
      THEN [ok |-> TRUE, writer |-> write(AsU8(idx), writer),
            value |-> AsU8(idx), err |-> "none"]
      ELSE [ok |-> TRUE, writer |-> write(0, writer), value |-> 0,
            err |-> "none"]

\* write_move once moves = sorted_moves(position) is computed: the writer
\* after the move's code and the symbol written, or MoveNotFound.
WriteMoveIn(m, moves, writer) ==
  LET idx == IndexOf(moves, m)
  IN  IF idx # -1
      THEN [ok |-> TRUE, writer |-> write(AsU8(idx), writer),
            value |-> AsU8(idx), err |-> "none"]
      ELSE [ok |-> FALSE, writer |-> writer, value |-> -1,
            err |-> "MoveNotFound"]

\* fn write_move
write_move(m, position, writer) ==
  WriteMoveIn(m, sorted_moves(position), writer)

NoMove == Normal("None", NoSquare, NoSquare, "None", "None")

\* fn read_move: the move and the offset after its code; an I/O error when
\* the input ends inside a code; a panic when the index is not one of the
\* sorted moves (moves[idx as usize] out of bounds).
read_move(bytes, pos, position, trie) ==
  LET r == read(bytes, pos, trie)
      moves == IF r.ok THEN sorted_moves(position) ELSE <<>>
  IN  IF ~r.ok
      THEN [ok |-> FALSE, move |-> NoMove, pos |-> r.pos, err |-> "IO"]
      ELSE IF r.value >= Len(moves)
      THEN [ok |-> FALSE, move |-> NoMove, pos |-> r.pos,
            err |-> "IndexPanic"]
      ELSE [ok |-> TRUE, move |-> moves[r.value + 1], pos |-> r.pos,
            err |-> "none"]

OkMoves(ms) == [ok |-> TRUE, moves |-> ms, err |-> "none"]

ErrMoves(e) == [ok |-> FALSE, moves |-> <<>>, err |-> e]

\* decompress_from_position not called yet, and inside its loop.
NotCalled == [ok |-> FALSE, moves |-> <<>>, err |-> "not called"]

Running == [ok |-> FALSE, moves |-> <<>>, err |-> "running"]


(***************************************************************************)
(* SpecCodes: the table audited entry by entry and pair by pair            *)
(***************************************************************************)

\* The Kraft weight 2^(-length) of an entry in units of 2^(-31), kept in
\* two limbs (hi counts 2^16 units) so that the sum stays inside 32 bits.
WeightHi(s) == IF 31 - SymLen(s) >= 16 THEN 2 ^ (31 - SymLen(s) - 16) ELSE 0

WeightLo(s) == IF 31 - SymLen(s) >= 16 THEN 0 ELSE 2 ^ (31 - SymLen(s))

\* Add the weight of the next entry of the table to the running Kraft sum.
AuditAdd ==
  /\ auditPair = <<>>
  /\ auditN < 256
  /\ auditN' = auditN + 1
  /\ auditHi' = auditHi + WeightHi(auditN)
  /\ auditLo' = auditLo + WeightLo(auditN)
  /\ UNCHANGED scoreVars
  /\ UNCHANGED <<auditPair, treeVars, posVars, encVars, decVars>>

\* Take two entries of the table to compare their bit strings.
AuditPair ==
  /\ auditPair = <<>>
  /\ auditN = 256
  /\ \E i \in Symbols, j \in Symbols : auditPair' = <<i, j>>
  /\ UNCHANGED scoreVars
  /\ UNCHANGED <<auditN, auditHi, auditLo, treeVars, posVars, encVars, decVars>>

InitCodes ==
  /\ auditN = 0 /\ auditHi = 0 /\ auditLo = 0 /\ auditPair = <<>>
  /\ stack = <<>> /\ ret = NoNode /\ root = NoNode
  /\ node = NoNode /\ nread = 0 /\ sym = -1
  /\ posSetup = EmptySetup /\ posPacked = Pending
  /\ posUnpacked = PendingSetup
  /\ mvStart = EmptySetup /\ mvInput = <<>> /\ cPos = EmptySetup
  /\ cPrev = EmptySetup /\ cWriter = NewWriter /\ cEmitted = <<>>
  /\ cOut = Pending /\ dIn = [bytes |-> <<>>, plies |-> 0]
  /\ dPos = EmptySetup /\ dBit = 0 /\ dMoves = <<>> /\ dOut = NotCalled
  /\ scMove = NoMove /\ scPos = EmptySetup /\ scScore = 0

NextCodes == AuditAdd \/ AuditPair

SpecCodes == InitCodes /\ [][NextCodes]_vars

(***************************************************************************)
(* SpecTree: build_tree(0, 0) as a call stack, then read                   *)
(***************************************************************************)

Frame(code, bits) == [code |-> code, bits |-> bits, stage |-> "enter", zero |-> NoNode]

Top == stack[Len(stack)]

Pop == SubSeq(stack, 1, Len(stack) - 1)

\* lazy_static: ROOT = build_tree(0, 0) is entered.
InitTree ==
  /\ auditN = 0 /\ auditHi = 0 /\ auditLo = 0 /\ auditPair = <<>>
  /\ stack = <<Frame(0, 0)>> /\ ret = NoNode /\ root = NoNode
  /\ node = NoNode /\ nread = 0 /\ sym = -1
  /\ posSetup = EmptySetup /\ posPacked = Pending
  /\ posUnpacked = PendingSetup
  /\ mvStart = EmptySetup /\ mvInput = <<>> /\ cPos = EmptySetup
  /\ cPrev = EmptySetup /\ cWriter = NewWriter /\ cEmitted = <<>>
  /\ cOut = Pending /\ dIn = [bytes |-> <<>>, plies |-> 0]
  /\ dPos = EmptySetup /\ dBit = 0 /\ dMoves = <<>> /\ dOut = NotCalled
  /\ scMove = NoMove /\ scPos = EmptySetup /\ scScore = 0

\* A call of build_tree runs its lookup loop: it returns a leaf, or calls
\* itself for the zero child.  Below MaxCodeLen the child's code no longer
\* fits the model's integers: the frame is marked "deep" and left there.
BuildEnter ==
  /\ stack # <<>>
  /\ ret = NoNode
  /\ Top.stage = "enter"
  /\ LET i == LeafFor(Top.code, Top.bits)
     IN  IF i # -1
         THEN /\ stack' = Pop
              /\ ret' = Leaf(i)
         ELSE IF Top.bits >= MaxCodeLen
         THEN /\ stack' = [stack EXCEPT ![Len(stack)].stage = "deep"]
              /\ ret' = ret
         ELSE /\ stack' = Append([stack EXCEPT ![Len(stack)].stage = "zero"],
                                 Frame(ZeroCode(Top.code), Top.bits + 1))
              /\ ret' = ret
  /\ UNCHANGED scoreVars
  /\ UNCHANGED <<root, node, nread, sym, codeVars, posVars, encVars, decVars>>

\* A recursive call has returned into its caller: after the zero child the
\* caller calls for the one child, after the one child it returns the
\* interior node.
BuildResume ==
  /\ stack # <<>>
  /\ ret # NoNode
  /\ IF Top.stage = "zero"
     THEN /\ stack' = Append([stack EXCEPT ![Len(stack)].stage = "one",
                                           ![Len(stack)].zero = ret],
                             Frame(OneCode(Top.code), Top.bits + 1))
          /\ ret' = NoNode
     ELSE /\ Top.stage = "one"
          /\ stack' = Pop
          /\ ret' = Interior(Top.zero, ret)
  /\ UNCHANGED scoreVars
  /\ UNCHANGED <<root, node, nread, sym, codeVars, posVars, encVars, decVars>>

\* The outermost call has returned: ROOT holds the trie.
BuildDone ==
  /\ stack = <<>>
  /\ ret # NoNode
  /\ root = NoNode
  /\ root' = ret
  /\ ret' = NoNode
  /\ UNCHANGED scoreVars
  /\ UNCHANGED <<stack, node, nread, sym, codeVars, posVars, encVars, decVars>>

\* read is entered: node = &*ROOT.
ReadStart ==
  /\ root # NoNode
  /\ node = NoNode
  /\ node' = root
  /\ nread' = 0
  /\ sym' = -1
  /\ UNCHANGED scoreVars
  /\ UNCHANGED <<stack, ret, root, codeVars, posVars, encVars, decVars>>

\* Node::Interior: one bit is read from the stream, whatever it holds.
ReadBit ==
  /\ node.kind = "interior"
  /\ \E bit \in {0, 1} : node' = Descend(node, bit)
  /\ nread' = nread + 1
  /\ UNCHANGED scoreVars
  /\ UNCHANGED <<stack, ret, root, sym, codeVars, posVars, encVars, decVars>>

\* Node::Leaf(n): read returns Ok(n).
ReadLeaf ==
  /\ node.kind = "leaf"
  /\ sym' = node.sym
  /\ node' = NoNode
  /\ UNCHANGED scoreVars
  /\ UNCHANGED <<stack, ret, root, nread, codeVars, posVars, encVars, decVars>>

NextTree ==
  BuildEnter \/ BuildResume \/ BuildDone \/ ReadStart \/ ReadBit \/ ReadLeaf

SpecTree == InitTree /\ [][NextTree]_vars

\* build_tree and read are plain sequential code: a step that can be taken
\* is taken.
FairSpecTree == SpecTree /\ WF_vars(NextTree)

(***************************************************************************)
(* SpecSym: write of one symbol into a fresh writer, pad_to_byte, then     *)
(* read of the bytes over the trie ROOT holds                              *)
(***************************************************************************)

InitSym ==
  /\ auditN = 0 /\ auditHi = 0 /\ auditLo = 0 /\ auditPair = <<>>
  /\ stack = <<>> /\ ret = NoNode /\ root = ROOT
  /\ node = NoNode /\ nread = 0 /\ sym = -1
  /\ posSetup = EmptySetup /\ posPacked = Pending
  /\ posUnpacked = PendingSetup
  /\ mvStart = EmptySetup /\ mvInput = <<>> /\ cPos = EmptySetup
  /\ cPrev = EmptySetup /\ cWriter = NewWriter /\ cEmitted = <<>>
  /\ cOut = Pending /\ dIn = [bytes |-> <<>>, plies |-> 0]
  /\ dPos = EmptySetup /\ dBit = 0 /\ dMoves = <<>> /\ dOut = NotCalled
  /\ scMove = NoMove /\ scPos = EmptySetup /\ scScore = 0

\* write(value, writer) for any u8 value.
SymWrite ==
  /\ cEmitted = <<>>
  /\ \E s \in Symbols :
       /\ cWriter' = write(s, cWriter)
       /\ cEmitted' = <<s>>
  /\ UNCHANGED scoreVars
  /\ UNCHANGED <<mvStart, mvInput, cPos, cPrev, cOut, codeVars, treeVars,
                 posVars, decVars>>

\* writer.pad_to_byte(): the output is complete.
SymPad ==
  /\ cEmitted # <<>>
  /\ cOut = Pending
  /\ cWriter' = pad_to_byte(cWriter)
  /\ cOut' = Ok(pad_to_byte(cWriter).bytes)
  /\ UNCHANGED scoreVars
  /\ UNCHANGED <<mvStart, mvInput, cPos, cPrev, cEmitted, codeVars, treeVars,
                 posVars, decVars>>

\* read(reader) on a reader over the output: the symbol returned (-1 for
\* an I/O error) and the number of bits consumed.
SymRead ==
  /\ cOut.ok
  /\ nread = 0
  /\ \E r \in {read(cOut.bytes, 0, root)} :
       /\ sym' = IF r.ok THEN r.value ELSE -1
       /\ nread' = r.pos
  /\ UNCHANGED scoreVars
  /\ UNCHANGED <<stack, ret, root, node, codeVars, posVars, encVars, decVars>>

NextSym == SymWrite \/ SymPad \/ SymRead

SpecSym == InitSym /\ [][NextSym]_vars

(***************************************************************************)
(* SpecPos: compress applied to a Setup, decompress applied to its bytes   *)
(***************************************************************************)

\* How many pieces a generated board holds at most.
MaxPieces == 2

BackRank ==
  <<"Rook", "Knight", "Bishop", "Queen", "King", "Bishop", "Knight", "Rook">>

\* The board of Setup::default() / Chess::default().
StartBoard ==
  [sq \in Squares |->
     IF sq <= 7 THEN Piece("White", BackRank[sq + 1])
     ELSE IF sq <= 15 THEN Piece("White", "Pawn")
     ELSE IF sq >= 56 THEN Piece("Black", BackRank[sq - 55])
     ELSE IF sq >= 48 THEN Piece("Black", "Pawn")
     ELSE NoPiece]

\* The board after 1. e4.
After1e4Board ==
  [StartBoard EXCEPT ![12] = NoPiece, ![28] = Piece("White", "Pawn")]

\* The pieces a generated board is made of, each on its square.
Placements ==
  { <<0, Piece("White", "Rook")>>,   <<4, Piece("White", "King")>>,
    <<27, Piece("White", "Queen")>>, <<28, Piece("White", "Pawn")>>,
    <<28, Piece("White", "Knight")>>, <<35, Piece("Black", "Queen")>>,
    <<36, Piece("Black", "Pawn")>>,  <<36, Piece("White", "Bishop")>>,
    <<56, Piece("Black", "Knight")>>, <<58, Piece("Black", "Bishop")>>,
    <<60, Piece("Black", "King")>>,  <<63, Piece("Black", "Rook")>> }

BoardOf(ps) ==
  [sq \in Squares |->
     IF \E p \in ps : p[1] = sq
     THEN (CHOOSE p \in ps : p[1] = sq)[2]
     ELSE NoPiece]

InputBoards ==
  {StartBoard, After1e4Board}
  \cup {BoardOf(ps) : ps \in {qs \in SUBSET Placements :
                                /\ Cardinality(qs) <= MaxPieces
                                /\ \A p, q \in qs : p[1] = q[1] => p = q}}

RookSquares(board) == {sq \in Squares : board[sq].role = "Rook"}

\* <<halfmoves, fullmoves>>
InputCounters == {<<0, 1>>, <<50, 1>>, <<0, 2>>, <<128, 65>>}

\* e3, e6 and e8; e8 is no en-passant square of a game, and with Black to
\* move its pushed-to square is off the board.
InputEpSquares == {NoSquare, 20, 44, 60}

\* The castling rights tried with a board: none, every rook, and h1 whether
\* or not a rook stands there.
InputCastling(board) == {{}, RookSquares(board), {7}}

InitPos ==
  /\ auditN = 0 /\ auditHi = 0 /\ auditLo = 0 /\ auditPair = <<>>
  /\ stack = <<>> /\ ret = NoNode /\ root = NoNode
  /\ node = NoNode /\ nread = 0 /\ sym = -1
  /\ \E b \in InputBoards, t \in Colors, e \in InputEpSquares,
        hf \in InputCounters :
       \E c \in InputCastling(b) :
         posSetup = [board |-> b, turn |-> t, castling_rights |-> c,
                     ep_square |-> e, halfmoves |-> hf[1],
                     fullmoves |-> hf[2]]
  /\ posPacked = Pending
  /\ posUnpacked = PendingSetup
  /\ mvStart = EmptySetup /\ mvInput = <<>> /\ cPos = EmptySetup
  /\ cPrev = EmptySetup /\ cWriter = NewWriter /\ cEmitted = <<>>
  /\ cOut = Pending /\ dIn = [bytes |-> <<>>, plies |-> 0]
  /\ dPos = EmptySetup /\ dBit = 0 /\ dMoves = <<>> /\ dOut = NotCalled
  /\ scMove = NoMove /\ scPos = EmptySetup /\ scScore = 0

\* A caller compresses its position.
PosCompress ==
  /\ posPacked = Pending
  /\ posPacked' = compress(posSetup)
  /\ UNCHANGED scoreVars
  /\ UNCHANGED <<posSetup, posUnpacked, codeVars, treeVars, encVars, decVars>>

\* A caller decompresses the bytes compress returned.
PosDecompress ==
  /\ posPacked.ok
  /\ posUnpacked = PendingSetup
  /\ posUnpacked' \in BuildOutcomes(decompress(posPacked.bytes))
  /\ UNCHANGED scoreVars
  /\ UNCHANGED <<posSetup, posPacked, codeVars, treeVars, encVars, decVars>>

NextPos == PosCompress \/ PosDecompress

SpecPos == InitPos /\ [][NextPos]_vars

(***************************************************************************)
(* SpecUnpack: decompress applied to bytes of any origin                   *)
(***************************************************************************)

\* How many bytes follow the occupancy at most.
MaxTailBytes == 3

\* The occupancies of foreign inputs: empty, e1, e4, e8, and e1 with e8.
InputOccupied == {{}, {4}, {28}, {60}, {4, 60}}

\* The bytes that follow: codes 0, 1, 12 and 15 in the low half with code
\* 0 in the high half, which are also the counters 0, 1, 12 and 15, and
\* 0x80, code 0 under code 8 and a LEB128 byte that announces another.
TailBytes == {0, 1, 12, 15, 128}

\* Whole inputs, and inputs cut inside the occupancy.
InputPacked ==
  {to_be_bytes(occ) \o tail :
     occ \in InputOccupied,
     tail \in UNION {[1..n -> TailBytes] : n \in 0..MaxTailBytes}}
  \cup {SubSeq(to_be_bytes(occ), 1, n) : occ \in InputOccupied, n \in 0..7}

InitUnpack ==
  /\ auditN = 0 /\ auditHi = 0 /\ auditLo = 0 /\ auditPair = <<>>
  /\ stack = <<>> /\ ret = NoNode /\ root = NoNode
  /\ node = NoNode /\ nread = 0 /\ sym = -1
  /\ posSetup = EmptySetup
  /\ \E bytes \in InputPacked : posPacked = Ok(bytes)
  /\ posUnpacked = PendingSetup
  /\ mvStart = EmptySetup /\ mvInput = <<>> /\ cPos = EmptySetup
  /\ cPrev = EmptySetup /\ cWriter = NewWriter /\ cEmitted = <<>>
  /\ cOut = Pending /\ dIn = [bytes |-> <<>>, plies |-> 0]
  /\ dPos = EmptySetup /\ dBit = 0 /\ dMoves = <<>> /\ dOut = NotCalled
  /\ scMove = NoMove /\ scPos = EmptySetup /\ scScore = 0

NextUnpack == PosDecompress

SpecUnpack == InitUnpack /\ [][NextUnpack]_vars

(***************************************************************************)
(* SpecMoves: compress_from_position, then decompress_from_position of     *)
(* its output, one iteration of their loops per step                       *)
(***************************************************************************)

\* How many plies a caller passes at most.
MaxPlies == 2

Chess(placements, turn, castling) ==
  [board |-> BoardOf(placements), turn |-> turn, castling_rights |-> castling,
   ep_square |-> NoSquare, halfmoves |-> 0, fullmoves |-> 1]

\* The positions games start from: a pawn about to promote by a push or by
\* taking a knight; a double step that can be answered en passant; a king
\* that may castle.
StartPositions ==
  { Chess({<<4, Piece("White", "King")>>, <<49, Piece("White", "Pawn")>>,
           <<56, Piece("Black", "Knight")>>, <<63, Piece("Black", "King")>>},
          "White", {}),
    Chess({<<4, Piece("White", "King")>>, <<36, Piece("White", "Pawn")>>,
           <<51, Piece("Black", "Pawn")>>, <<60, Piece("Black", "King")>>},
          "Black", {}),
    Chess({<<4, Piece("White", "King")>>, <<7, Piece("White", "Rook")>>,
           <<60, Piece("Black", "King")>>},
          "White", {7}) }

\* Moves a caller may pass that are not legal in the position: the first
\* legal move with its capture field changed, and a king "move" to the
\* square the king stands on.
IllegalSamples(position, moves) ==
  (IF moves = <<>> THEN {}
   ELSE {[moves[1] EXCEPT !.capture = IF @ = "None" THEN "Queen" ELSE "None"]})
  \cup {Normal("King", KingOf(position.board, position.turn),
               KingOf(position.board, position.turn), "None", "None")}

InitMoves ==
  /\ auditN = 0 /\ auditHi = 0 /\ auditLo = 0 /\ auditPair = <<>>
  /\ stack = <<>> /\ ret = NoNode /\ root = ROOT
  /\ node = NoNode /\ nread = 0 /\ sym = -1
  /\ posSetup = EmptySetup /\ posPacked = Pending
  /\ posUnpacked = PendingSetup
  /\ mvStart \in StartPositions
  /\ mvInput = <<>>
  /\ cPos = mvStart
  /\ cPrev = mvStart
  /\ cWriter = NewWriter
  /\ cEmitted = <<>>
  /\ cOut = Pending
  /\ dIn = [bytes |-> <<>>, plies |-> 0]
  /\ dPos = mvStart
  /\ dBit = 0
  /\ dMoves = <<>>
  /\ dOut = NotCalled
  /\ scMove = NoMove /\ scPos = EmptySetup /\ scScore = 0

\* One iteration of compress_from_position's loop, for the next move m of
\* the caller's slice: write_move(m, &position, &mut writer)?, then
\* position = position.play(m).map_err(Error::Chess)?.
CompressPly ==
  /\ cOut = Pending
  /\ Len(mvInput) < MaxPlies
  /\ LET moves == sorted_moves(cPos)
     IN  \E m \in {moves[k] : k \in 1..Len(moves)}
                  \cup IllegalSamples(cPos, moves) :
           LET w == WriteMoveIn(m, moves, cWriter)
           IN  /\ mvInput' = Append(mvInput, m)
               /\ cPrev' = cPos
               /\ IF ~w.ok
                  THEN /\ cOut' = Err(w.err)
                       /\ UNCHANGED <<cPos, cWriter, cEmitted>>
                  ELSE IF IndexOf(moves, m) = -1
                  THEN /\ cOut' = Err("Chess")
                       /\ cWriter' = w.writer
                       /\ UNCHANGED <<cPos, cEmitted>>
                  ELSE /\ cOut' = cOut
                       /\ cWriter' = w.writer
                       /\ cEmitted' = Append(cEmitted, w.value)
                       /\ cPos' = play(cPos, m)
  /\ UNCHANGED scoreVars
  /\ UNCHANGED <<mvStart, decVars, codeVars, treeVars, posVars>>

\* The slice is exhausted: writer.pad_to_byte(), Ok(output).
CompressFinish ==
  /\ cOut = Pending
  /\ cOut' = Ok(pad_to_byte(cWriter).bytes)
  /\ cWriter' = pad_to_byte(cWriter)
  /\ UNCHANGED scoreVars
  /\ UNCHANGED <<mvStart, mvInput, cPos, cPrev, cEmitted, decVars, codeVars,
                 treeVars, posVars>>

\* The caller hands compress's bytes back with the number of plies and the
\* starting position.
DecompressStart ==
  /\ cOut.ok
  /\ dOut = NotCalled
  /\ dIn' = [bytes |-> cOut.bytes, plies |-> Len(mvInput)]
  /\ dPos' = mvStart
  /\ dBit' = 0
  /\ dMoves' = <<>>
  /\ dOut' = Running
  /\ UNCHANGED scoreVars
  /\ UNCHANGED <<encVars, codeVars, treeVars, posVars>>

\* One iteration of decompress_from_position's loop: read_move, play, push.
DecompressPly ==
  /\ dOut = Running
  /\ Len(dMoves) < dIn.plies
  /\ \E r \in {read_move(dIn.bytes, dBit, dPos, root)} :
         IF r.ok
         THEN /\ dMoves' = Append(dMoves, r.move)
              /\ dPos' = play(dPos, r.move)
              /\ dBit' = r.pos
              /\ dOut' = dOut
         ELSE /\ dOut' = ErrMoves(r.err)
              /\ UNCHANGED <<dMoves, dPos, dBit>>
  /\ UNCHANGED scoreVars
  /\ UNCHANGED <<dIn, encVars, codeVars, treeVars, posVars>>

\* All plies are read: Ok(moves).
DecompressFinish ==
  /\ dOut = Running
  /\ Len(dMoves) = dIn.plies
  /\ dOut' = OkMoves(dMoves)
  /\ UNCHANGED scoreVars
  /\ UNCHANGED <<dIn, dPos, dBit, dMoves, encVars, codeVars, treeVars,
                 posVars>>

NextMoves ==
  CompressPly \/ CompressFinish \/ DecompressStart \/ DecompressPly
  \/ DecompressFinish

SpecMoves == InitMoves /\ [][NextMoves]_vars

(***************************************************************************)
(* SpecDecode: decompress_from_position called on bytes of any origin      *)
(***************************************************************************)

\* How many bytes a foreign stream holds at most.
MaxStreamBytes == 2

\* The bytes foreign streams are made of: 0x00 (four times symbol 0), 0x55
\* (twice symbol 4), 0x90 (symbols 1, 1, 0) and 0xFF (symbol 22 and one
\* bit of the next code).
StreamBytes == {0, 85, 144, 255}

InputStreams == UNION {[1..n -> StreamBytes] : n \in 0..MaxStreamBytes}

InitDecode ==
  /\ auditN = 0 /\ auditHi = 0 /\ auditLo = 0 /\ auditPair = <<>>
  /\ stack = <<>> /\ ret = NoNode /\ root = ROOT
  /\ node = NoNode /\ nread = 0 /\ sym = -1
  /\ posSetup = EmptySetup /\ posPacked = Pending
  /\ posUnpacked = PendingSetup
  /\ mvStart \in StartPositions
  /\ mvInput = <<>> /\ cPos = mvStart /\ cPrev = mvStart
  /\ cWriter = NewWriter /\ cEmitted = <<>> /\ cOut = Pending
  /\ dIn = [bytes |-> <<>>, plies |-> 0]
  /\ dPos = mvStart /\ dBit = 0 /\ dMoves = <<>> /\ dOut = NotCalled
  /\ scMove = NoMove /\ scPos = EmptySetup /\ scScore = 0

\* A caller passes any bytes, a number of plies and the position.
DecodeStart ==
  /\ dOut = NotCalled
  /\ \E bytes \in InputStreams, plies \in 0..MaxPlies :
       dIn' = [bytes |-> bytes, plies |-> plies]
  /\ dPos' = mvStart
  /\ dBit' = 0
  /\ dMoves' = <<>>
  /\ dOut' = Running
  /\ UNCHANGED <<scoreVars, encVars, codeVars, treeVars, posVars>>

NextDecode == DecodeStart \/ DecompressPly \/ DecompressFinish

SpecDecode == InitDecode /\ [][NextDecode]_vars

(***************************************************************************)
(* SpecScore: move_score applied to a move of any role between any two     *)
(* squares, for either side to move, with or without an enemy pawn next to *)
(* the destination                                                         *)
(***************************************************************************)

\* The squares one file and one rank away from sq.
DiagNeighbours(sq) ==
  {t \in Squares : Abs(FileOf(t) - FileOf(sq)) = 1
                    /\ Abs(RankOf(t) - RankOf(sq)) = 1}

InitScore ==
  /\ auditN = 0 /\ auditHi = 0 /\ auditLo = 0 /\ auditPair = <<>>
  /\ stack = <<>> /\ ret = NoNode /\ root = NoNode
  /\ node = NoNode /\ nread = 0 /\ sym = -1
  /\ posSetup = EmptySetup /\ posPacked = Pending
  /\ posUnpacked = PendingSetup
  /\ mvStart = EmptySetup /\ mvInput = <<>> /\ cPos = EmptySetup
  /\ cPrev = EmptySetup /\ cWriter = NewWriter /\ cEmitted = <<>>
  /\ cOut = Pending /\ dIn = [bytes |-> <<>>, plies |-> 0]
  /\ dPos = EmptySetup /\ dBit = 0 /\ dMoves = <<>> /\ dOut = NotCalled
  /\ \E role \in Roles, from \in Squares, to \in Squares :
       scMove = Normal(role, from, to, "None", "None")
  /\ scPos = EmptySetup
  /\ scScore = 0

\* Where the other side's pawn may stand: nowhere, or on the lowest or the
\* highest square diagonally next to the destination (one rank below and
\* one rank above it, unless the destination is on the first or last rank).
PawnSquares(to) ==
  {NoSquare, Min(DiagNeighbours(to)), Max(DiagNeighbours(to))}

\* move_score(m, position) is called for the move in a position with the
\* given side to move and at most one pawn of the other side.
ScoreMove ==
  /\ scScore = 0
  /\ \E turn \in Colors, sq \in PawnSquares(scMove.to) :
       \E position \in
            {Chess(IF sq = NoSquare THEN {}
                   ELSE {<<sq, Piece(Other(turn), "Pawn")>>}, turn, {})} :
         /\ scPos' = position
         /\ scScore' = move_score(scMove, position)
  /\ scMove' = scMove
  /\ UNCHANGED <<codeVars, treeVars, posVars, encVars, decVars>>

NextScore == ScoreMove

SpecScore == InitScore /\ [][NextScore]_vars

(***************************************************************************)
(* Properties of the position codec                                        *)
(***************************************************************************)

\* A legal position, as far as the codec reads it: every castling-rights
\* square holds a rook, and an en-passant square lies behind the pawn that
\* just made its double step (on the third rank behind a White pawn when
\* Black is to move, on the sixth behind a Black pawn when White is).
LegalPosition(s) ==
  /\ \A sq \in s.castling_rights : s.board[sq].role = "Rook"
  /\ s.ep_square # NoSquare =>
       IF s.turn = "Black"
       THEN /\ s.ep_square \in 16..23
            /\ s.board[s.ep_square + 8] = Piece("White", "Pawn")
       ELSE /\ s.ep_square \in 40..47
            /\ s.board[s.ep_square - 8] = Piece("Black", "Pawn")

NibbleBytes(s) == (Cardinality(Occupied(s.board)) + 1) \div 2

\* C2: for every legal position, compress succeeds and decompress of its
\* bytes returns a setup with the same board, side to move, castling
\* rights, en-passant square, halfmoves and fullmoves.
C2_PositionRoundTrip ==
  LegalPosition(posSetup) =>
    /\ posPacked # Pending => posPacked.ok
    /\ posUnpacked # PendingSetup =>
         /\ posUnpacked.ok
         /\ posUnpacked.setup.board = posSetup.board
         /\ posUnpacked.setup.turn = posSetup.turn
         /\ posUnpacked.setup.castling_rights = posSetup.castling_rights
         /\ posUnpacked.setup.ep_square = posSetup.ep_square
         /\ posUnpacked.setup.halfmoves = posSetup.halfmoves
         /\ posUnpacked.setup.fullmoves = posSetup.fullmoves

\* C2 witness: Black to move without a Black king, fullmoves 1 and
\* halfmoves 0, a rook with castling rights and a White pawn that just
\* passed e3, compressed and decompressed.
C2_Witness ==
  /\ LegalPosition(posSetup)
  /\ posSetup.turn = "Black"
  /\ KingOf(posSetup.board, "Black") = NoSquare
  /\ posSetup.fullmoves = 1
  /\ posSetup.halfmoves = 0
  /\ posSetup.ep_square = 20
  /\ posUnpacked.ok
  /\ posUnpacked.setup.ep_square = 20
  /\ posUnpacked.setup.turn = "Black"

\* The occupied squares below sq: the code of sq is the (n+1)-th code.
Below(s, sq) == Cardinality({o \in Occupied(s.board) : o < sq})

\* The 4-bit code compress gives the piece on sq.
CodeAt(s, sq) ==
  LET pushed == IF s.ep_square = NoSquare THEN NoSquare
                ELSE Offset(s.ep_square, IF s.turn = "Black" THEN 8 ELSE -8)
  IN  piece_value(s.board[sq], sq, s.turn = "Black", s.castling_rights, {pushed})

StartSetup ==
  [board |-> StartBoard, turn |-> "White", castling_rights |-> {0, 7, 56, 63},
   ep_square |-> NoSquare, halfmoves |-> 0, fullmoves |-> 1]

\* C8: the bytes compress returns are the 8 bytes of the occupancy, most
\* significant first (bit i of the 64-bit number is square i), then exactly
\* ceil(popcount / 2) bytes of 4-bit codes in ascending square order, odd
\* codes (first, third, ...) in the low half of their byte and even codes in
\* the high half, the last high half 0 when the count is odd, then only the
\* counters; the empty board without counters is 8 bytes and the standard
\* starting position 24 bytes.
C8_PositionLayout ==
  posPacked.ok =>
    LET b == posPacked.bytes
        occ == Occupied(posSetup.board)
        n == Cardinality(occ)
    IN  /\ Len(b) >= 8 + (n + 1) \div 2
        /\ \A k \in 1..Len(b) : b[k] \in 0..255
        /\ \A sq \in Squares :
             ((b[8 - (sq \div 8)] \div (2 ^ (sq % 8))) % 2 = 1) <=> sq \in occ
        /\ \A sq \in occ :
             LET k == Below(posSetup, sq) + 1
                 byte == b[8 + (k + 1) \div 2]
             IN  CodeAt(posSetup, sq) =
                   IF k % 2 = 1 THEN byte % 16 ELSE byte \div 16
        /\ n % 2 = 1 => b[8 + (n + 1) \div 2] \div 16 = 0
        /\ (posSetup.halfmoves = 0 /\ posSetup.fullmoves = 1
            /\ posSetup.turn = "White") => Len(b) = 8 + (n + 1) \div 2
        /\ (occ = {} /\ posSetup.halfmoves = 0 /\ posSetup.fullmoves = 1
            /\ posSetup.turn = "White") => b = <<0, 0, 0, 0, 0, 0, 0, 0>>
        /\ posSetup = StartSetup => Len(b) = 24

\* C8 witness: the standard starting position, compressed to 24 bytes the
\* first two of which are the eighth and seventh ranks, all occupied.
C8_Witness ==
  /\ posSetup = StartSetup
  /\ posPacked.ok
  /\ Len(posPacked.bytes) = 24
  /\ posPacked.bytes[1] = 255
  /\ posPacked.bytes[2] = 255
  /\ posPacked.bytes[3] = 0

\* C9: after the codes, compress writes the halfmove clock iff halfmoves > 0
\* or ply > 1 or broken_turn, and after it the ply count iff ply > 1 or
\* broken_turn, each as unsigned LEB128, and nothing else; halfmoves 50,
\* White to move, fullmoves 1 gives the single byte 0x32.
C9_OptionalCounters ==
  posPacked.ok =>
    LET b == posPacked.bytes
        tail == SubSeq(b, 8 + NibbleBytes(posSetup) + 1, Len(b))
        black == posSetup.turn = "Black"
        ply == (posSetup.fullmoves - 1) * 2 + (IF black THEN 1 ELSE 0)
        broken_turn ==
          black /\ \A sq \in Squares :
                     posSetup.board[sq] # Piece("Black", "King")
        withClock == posSetup.halfmoves > 0 \/ ply > 1 \/ broken_turn
        withPly == ply > 1 \/ broken_turn
        clock == Leb128Read(tail, 1)
        plies == Leb128Read(tail, clock.next)
    IN  /\ ~withClock <=> tail = <<>>
        /\ withClock =>
             /\ clock.ok
             /\ clock.value = posSetup.halfmoves
             /\ ~withPly <=> clock.next = Len(tail) + 1
        /\ withPly =>
             /\ plies.ok
             /\ plies.value = ply
             /\ plies.next = Len(tail) + 1
        /\ (posSetup.halfmoves = 50 /\ ~black /\ posSetup.fullmoves = 1)
             => tail = <<50>>

\* C9 witness: halfmoves 50, White to move, fullmoves 1: one trailing byte
\* 0x32.
C9_Witness ==
  /\ posSetup.halfmoves = 50
  /\ posSetup.turn = "White"
  /\ posSetup.fullmoves = 1
  /\ posPacked.ok
  /\ posPacked.bytes[Len(posPacked.bytes)] = 50
  /\ Len(posPacked.bytes) = 8 + NibbleBytes(posSetup) + 1

\* The square the pawn that passed the en-passant square stands on: e + 8
\* if Black is to move, else e - 8.
PushedTo(s) == s.ep_square + (IF s.turn = "Black" THEN 8 ELSE -8)

\* C10: when the position has an en-passant square and its pushed-to square
\* holds no pawn, compress fails with MissingPiece and returns no bytes.
C10_MissingPiece ==
  (/\ posPacked # Pending
   /\ posSetup.ep_square # NoSquare
   /\ PushedTo(posSetup) \in Squares
   /\ posSetup.board[PushedTo(posSetup)].role # "Pawn")
  => (~posPacked.ok /\ posPacked.err = "MissingPiece")

(***************************************************************************)
(* Properties of the move codec                                            *)
(***************************************************************************)

\* The last move the caller passed, and whether it was legal where it was
\* to be played.
LastMove == mvInput[Len(mvInput)]

LastMoveLegal == LastMove \in LegalMoveSet(cPrev)

\* C1: decompress_from_position of the bytes compress_from_position
\* returned for the moves m, with n = Len(m) and the same starting
\* position, reads m's moves one by one in order and returns exactly m.
C1_MoveRoundTrip ==
  /\ dOut = Running =>
       /\ Len(dMoves) <= Len(mvInput)
       /\ dMoves = SubSeq(mvInput, 1, Len(dMoves))
  /\ dOut \notin {NotCalled, Running} =>
       /\ dOut.ok
       /\ dOut.moves = mvInput
       /\ Len(dOut.moves) = dIn.plies

\* C1 witness: a game of at least two plies, the second an en-passant
\* capture, has come back from decompress_from_position.
C1_Witness ==
  /\ dOut.ok
  /\ Len(dOut.moves) >= 2
  /\ dOut.moves[2].kind = "EnPassant"
  /\ dOut.moves = mvInput

\* C5: when the last move passed is not a legal move of the position the
\* moves before it reach, compress_from_position has returned
\* Err(MoveNotFound) without bytes, and the move was not played.
C5_MoveNotFound ==
  (mvInput # <<>> /\ ~LastMoveLegal) =>
    /\ cOut = Err("MoveNotFound")
    /\ cOut.bytes = <<>>
    /\ cPos = cPrev
    /\ Len(cEmitted) = Len(mvInput) - 1

\* C5 witness: the second move passed is the first legal move with a
\* capture it does not make, after a legal first move.
C5_Witness ==
  /\ Len(mvInput) = 2
  /\ ~LastMoveLegal
  /\ [LastMove EXCEPT !.capture = "None"] \in LegalMoveSet(cPrev)
  /\ cOut = Err("MoveNotFound")

\* The symbol write_move emitted for the last move, when it emitted one.
LastEmitted == cEmitted[Len(cEmitted)]

\* The bytes of one code alone, padded.
CodeAlone(s) == pad_to_byte(write(s, NewWriter)).bytes

\* C6: the symbol write_move emits for a legal move m of P is the index i
\* of m in sorted_moves(P): 0 <= i <= L - 1 with L <= 256 legal moves, so
\* i <= 255, no other index holds m, and read_move of that code in P
\* returns m.
C6_SymbolIsIndex ==
  (cEmitted # <<>> /\ Len(cEmitted) = Len(mvInput)) =>
    LET L == sorted_moves(cPrev)
    IN  /\ LastMoveLegal
        /\ Len(L) <= 256
        /\ LastEmitted \in 0..(Len(L) - 1)
        /\ LastEmitted <= 255
        /\ \A k \in 1..Len(L) : L[k] = LastMove <=> k = LastEmitted + 1
        /\ read_move(CodeAlone(LastEmitted), 0, cPrev, root).move = LastMove

\* C6 witness: a promotion that is not the first of the sorted moves is
\* encoded.
C6_Witness ==
  /\ cEmitted # <<>>
  /\ Len(cEmitted) = Len(mvInput)
  /\ LastMove.promotion # "None"
  /\ LastEmitted > 0

\* The codes of the symbols, one after the other.
RECURSIVE ConcatCodes(_)
ConcatCodes(symbols) ==
  IF symbols = <<>> THEN <<>>
  ELSE ConcatCodes(SubSeq(symbols, 1, Len(symbols) - 1))
         \o CodeBits(symbols[Len(symbols)])

\* Bit k (1 first) of the bytes, the most significant bit of a byte first.
StreamBit(bytes, k) ==
  (bytes[((k - 1) \div 8) + 1] \div (2 ^ (7 - ((k - 1) % 8)))) % 2

\* C7: the bytes compress_from_position returns are the codes of the n
\* plies in ply order, most significant bit first, then zero bits up to the
\* byte boundary: ceil(total code length / 8) bytes, every bit after the
\* last code 0.
C7_StreamFormat ==
  cOut.ok =>
    LET codes == ConcatCodes(cEmitted)
    IN  /\ Len(cEmitted) = Len(mvInput)
        /\ Len(cOut.bytes) = (Len(codes) + 7) \div 8
        /\ \A k \in 1..(8 * Len(cOut.bytes)) :
             StreamBit(cOut.bytes, k) = IF k <= Len(codes) THEN codes[k] ELSE 0

\* C7 witness: two codes that together do not fill whole bytes, the second
\* straddling the first byte's end, are written and padded.
C7_Witness ==
  /\ cOut.ok
  /\ Len(cEmitted) = 2
  /\ Len(ConcatCodes(cEmitted)) % 8 # 0
  /\ Len(ConcatCodes(cEmitted)) > 8
  /\ Len(CodeBits(cEmitted[1])) < 8

\* The occupancy of the bytes, when they hold one.
OccupiedIn(bytes) == from_be_bytes(SubSeq(bytes, 1, 8))

\* C16: decompress of any bytes returns a setup or one of the error values
\* MissingBytes, SquareOffsetError, Leb128: MissingBytes when fewer than 8
\* bytes or fewer than ceil(popcount / 2) bytes after them are there; and
\* fullmoves = (ply - (1 if Black to move else 0)) / 2 + 1 never
\* underflows, so a setup returned never holds the wrapped value.
C16_DecompressTotal ==
  posUnpacked # PendingSetup =>
    LET bytes == posPacked.bytes
    IN  /\ \/ posUnpacked.ok
           \/ posUnpacked.err \in {"MissingBytes", "SquareOffsetError",
                                    "Leb128"}
        /\ posUnpacked.ok =>
             posUnpacked.setup.fullmoves # WrappedFullmoves
        /\ Len(bytes) < 8 => posUnpacked = ErrSetup("MissingBytes")
        /\ (/\ Len(bytes) >= 8
            /\ posUnpacked.ok)
           => Len(bytes) - 8 >= (Cardinality(OccupiedIn(bytes)) + 1) \div 2

(***************************************************************************)
(* Properties of write and read                                            *)
(***************************************************************************)

\* How many leaves of the trie below n carry symbol s.
RECURSIVE LeafCount(_, _)
LeafCount(n, s) ==
  IF n.kind = "leaf" THEN (IF n.sym = s THEN 1 ELSE 0)
  ELSE LeafCount(n.zero, s) + LeafCount(n.one, s)

\* The bits a writer holds, complete bytes first.
WrittenBits(w) ==
  [k \in 1..(8 * Len(w.bytes) + Len(w.buf)) |->
     IF k <= 8 * Len(w.bytes)
     THEN (w.bytes[((k - 1) \div 8) + 1] \div (2 ^ (7 - ((k - 1) % 8)))) % 2
     ELSE w.buf[k - 8 * Len(w.bytes)]]

\* C11: for every symbol s, write(s) emits the SymLen(s) bits of its code,
\* most significant first; read of them over the trie of build_tree(0, 0)
\* returns s after exactly SymLen(s) bits; and s labels exactly one leaf of
\* the trie.
C11_SymbolRoundTrip ==
  cEmitted # <<>> =>
    LET s == cEmitted[1]
    IN  /\ cOut = Pending => WrittenBits(cWriter) = CodeBits(s)
        /\ nread > 0 => (sym = s /\ nread = SymLen(s))
        /\ LeafCount(root, s) = 1

\* C11 witness: the 31-bit code of symbol 255 is written and read back.
C11_Witness ==
  /\ cEmitted = <<255>>
  /\ SymLen(255) = 31
  /\ Len(cOut.bytes) = 4
  /\ nread = 31
  /\ sym = 255

\* The position the k-th decoded move was decoded for.
RECURSIVE PositionAfter(_, _, _)
PositionAfter(position, moves, k) ==
  IF k = 0 THEN position
  ELSE play(PositionAfter(position, moves, k - 1), moves[k])

\* C15: for every input bit stream, decompress_from_position returns moves
\* that are each legal in the position they were decoded for, or returns
\* an error value (IO, Chess); it never indexes the sorted move list with a
\* decoded symbol that is not below the number of legal moves.
C15_DecodeTotal ==
  /\ \A k \in 1..Len(dMoves) :
       dMoves[k] \in LegalMoveSet(PositionAfter(mvStart, dMoves, k - 1))
  /\ dOut \notin {NotCalled, Running} =>
       \/ dOut.ok /\ dOut.moves = dMoves /\ Len(dMoves) = dIn.plies
       \/ ~dOut.ok /\ dOut.err \in {"IO", "Chess"}

(***************************************************************************)
(* Properties of the move ordering                                         *)
(***************************************************************************)

\* C12: for every role, from and to square, side to move, promotion role,
\* capture flag and defending-pawn outcome, score = -move_score is above 0
\* and below 2^31, and its fields do not overlap: from is bits 0..5, to
\* bits 6..11, 512 + move_value is in 0..1023 and is bits 12..21,
\* defending_pawn_score is in 0..7 and is bits 22..24, the capture flag is
\* bit 25 and the promotion term is what lies from bit 26 up.
C12_ScoreFields ==
  scScore # 0 =>
    /\ scScore = move_score(scMove, scPos)
    /\ \A promotion \in Roles \cup {"None"}, capture \in {"None", "Pawn"} :
         LET m == [scMove EXCEPT !.promotion = promotion,
                                 !.capture = capture]
             score == -move_score(m, scPos)
             value == move_value(scPos, m)
         IN  /\ score > 0
             /\ score \div (2 ^ 30) < 2
             /\ score % 64 = m.from
             /\ (score \div 64) % 64 = m.to
             /\ 512 + value \in 0..1023
             /\ (score \div (2 ^ 12)) % 1024 = 512 + value
             /\ (score \div (2 ^ 22)) % 8 \in {6, 6 - RoleInt(m.role)}
             /\ (score \div (2 ^ 25)) % 2 = (IF capture = "None" THEN 0 ELSE 1)
             /\ score \div (2 ^ 26)
                  = (IF promotion = "None" THEN 0 ELSE RoleInt(promotion) - 1)

\* C12 witness: a king move that loses the most the king's table allows
\* (80), to a square an enemy pawn attacks, is scored.
C12_Witness ==
  /\ scScore # 0
  /\ scMove.role = "King"
  /\ move_value(scPos, scMove) = -80
  /\ ((-scScore) \div (2 ^ 22)) % 8 = 0

\* A list back to front.
Reverse(list) == [k \in 1..Len(list) |-> list[Len(list) + 1 - k]]

\* C13: any two different legal moves of a position have different sort
\* keys (there are as many keys as legal moves), promotions from one square
\* to one square included, and the sorted
\* list is the same when the oracle lists the legal moves in the opposite
\* order.
C13_StrictTotalOrder ==
  /\ Cardinality({move_score(m, cPos) : m \in LegalMoveSet(cPos)})
       = Cardinality(LegalMoveSet(cPos))
  /\ SortMoves(Reverse(legal_moves(cPos)), cPos) = sorted_moves(cPos)

\* C13 witness: write_move has sorted a list that holds two promotions
\* sharing their from and to squares and has encoded one of them.
C13_Witness ==
  /\ cEmitted # <<>>
  /\ Len(cEmitted) = Len(mvInput)
  /\ LastMove.promotion # "None"
  /\ \E m \in LegalMoveSet(cPrev) :
       /\ m # LastMove
       /\ m.from = LastMove.from
       /\ m.to = LastMove.to

\* Whether a pawn of the side not to move attacks square to: it stands one
\* file beside it and one rank before it in its own direction of march.
EnemyPawnAttacks(position, to) ==
  LET enemy == Other(position.turn)
      march == IF enemy = "White" THEN 1 ELSE -1
  IN  \E s \in Squares :
        /\ position.board[s] = Piece(enemy, "Pawn")
        /\ RankOf(to) - RankOf(s) = march
        /\ FileOf(to) - FileOf(s) \in {-1, 1}

\* defending_pawn_score as move_score used it: bits 22..24 of the score.
DefendingPawnScore(m, position) ==
  ((-move_score(m, position)) \div (2 ^ 22)) % 8

\* C14: for every legal move m of a position, move_score uses
\* defending_pawn_score = 6 - role (Pawn = 1 .. King = 6) exactly when an
\* enemy pawn attacks the destination of m, and 6 otherwise.
C14_DefendingPawns ==
  \A m \in LegalMoveSet(cPos) :
    DefendingPawnScore(m, cPos)
      = (IF EnemyPawnAttacks(cPos, m.to) THEN 6 - RoleInt(m.role) ELSE 6)

\* C14 witness: a pawn move to a square an enemy pawn attacks has been
\* scored and encoded, in a position that also has moves to squares no
\* enemy pawn attacks.
C14_Witness ==
  /\ cEmitted # <<>>
  /\ Len(cEmitted) = Len(mvInput)
  /\ LastMove.role = "Pawn"
  /\ EnemyPawnAttacks(cPrev, LastMove.to)
  /\ DefendingPawnScore(LastMove, cPrev) = 5
  /\ \E m \in LegalMoveSet(cPrev) : ~EnemyPawnAttacks(cPrev, m.to)

(***************************************************************************)
(* Properties of the code book and the trie                                *)
(***************************************************************************)

\* C3: the CODES table is a complete prefix code.  Every entry audited so
\* far is 2..31 bits long and its code value fits in its length; of any two
\* different entries neither bit string is a prefix of (or equal to) the
\* other; and once all 256 entries are added the Kraft sum of 2^(-length)
\* is exactly 1, that is 2^31 units of 2^(-31).
C3_CompletePrefixCode ==
  /\ \A s \in 0..(auditN - 1) :
       /\ SymLen(s) >= 2
       /\ SymLen(s) <= 31
       /\ SymCode(s) >= 0
       /\ SymCode(s) \div (2 ^ (SymLen(s) - 1)) < 2
  /\ auditPair # <<>> /\ auditPair[1] # auditPair[2]
       => ~IsPrefixOf(CodeBits(auditPair[1]), CodeBits(auditPair[2]))
  /\ auditN = 256
       => /\ auditLo % 65536 = 0
          /\ auditHi + (auditLo \div 65536) = 32768

\* C3 witness: the whole table has been summed and two different entries
\* that share their first 27 bits (symbols 252 and 253) are compared.
C3_Witness ==
  /\ auditN = 256
  /\ auditPair = <<252, 253>>
  /\ SubSeq(CodeBits(252), 1, 27) = SubSeq(CodeBits(253), 1, 27)

\* C4: build_tree(0, 0) terminates and never calls itself for a node deeper
\* than 31; whatever bits the stream holds, read is at a leaf after at most
\* 31 bit reads and returns a symbol in 0..255.
C4_HuffmanCompleteness ==
  /\ [](\A k \in 1..Len(stack) :
          stack[k].bits <= 31 /\ stack[k].stage # "deep")
  /\ <>(root # NoNode)
  /\ [](/\ nread <= 31
        /\ (node.kind = "interior" => nread < 31)
        /\ sym \in -1..255)
  /\ [](node # NoNode => <>(node = NoNode /\ sym \in 0..255))

\* C4 witness: read has consumed 31 bits and stands on a leaf.
C4_Witness == node.kind = "leaf" /\ nread = 31 /\ node.sym \in 0..255

=============================================================================
